---- MODULE Spec2Model ----
(***************************************************************************)
(* A model of the request orchestration core of AI-Autonomous-Coder:       *)
(*   - EnhancedAIProvider.generate (src/ai-providers.js): provider         *)
(*     selection, the fallback loop and the usage statistics;              *)
(*   - SecurityManager (src/security.js): permissions, quarantine, the     *)
(*     rate limiter, sanitization, sandboxed execution and the audit log;  *)
(*   - ProjectPlannerAgent.createTaskBreakdown and AgentOrchestrator       *)
(*     (src/autonomous-agents.js): the task list and its execution.        *)
(* JavaScript runs one callback at a time: a handler is atomic up to its   *)
(* first await, so every action below is one such synchronous stretch.     *)
(***************************************************************************)
EXTENDS Integers, Sequences, FiniteSets, TLC

\* ---------------------------------------------------------------- bounds

\* generate calls made in one behaviour
MaxCalls == 2
\* milliseconds that pass while one provider attempt is awaited
AttemptLatency == 1
\* length of a provider's response string
MaxResponseLength == 1
\* const maxRequests = 100 of checkRateLimit (src/security.js:211), scaled down so
\* that a worker can fill its window within the model
maxRequests == 2
\* the audit log keeps the last 1000 entries (src/security.js:259), scaled down so
\* that the log can overflow within the model
maxAuditEntries == 3
\* executeInSandbox calls made in one behaviour
MaxInvocations == 3
\* grantPermission, revokePermission, quarantineAgent and releaseAgent calls
MaxAdminOps == 3
\* clock advances
MaxTicks == 2
\* executeInSandbox invocations awaited at the same time
MaxInFlight == 1
\* detectAnomalies reports more than 10 recent failures (src/security.js:296),
\* scaled down so that the audit log of the model can hold that many
failureThreshold == 2
\* detectAnomalies reports more than 5 recent dangerous patterns
\* (src/security.js:311), scaled down likewise
patternThreshold == 1
\* Math.random() is one of 0/RandomScale .. (RandomScale-1)/RandomScale
RandomScale == 2
\* features declared by one requirements document
MaxFeatures == 2
\* executeProject calls made in one behaviour
MaxProjects == 2

\* ------------------------------------------------------- helper operators

Range(s) == {s[i] : i \in 1..Len(s)}

RECURSIVE InsertBy_BeforeEquals(_, _, _)
\* the insertion step of a sort that is not stable: x goes before the elements
\* with an equal key
InsertBy_BeforeEquals(x, s, key) ==
    IF s = <<>> THEN <<x>>
    ELSE IF key[x] <= key[Head(s)] THEN <<x>> \o s
    ELSE <<Head(s)>> \o InsertBy_BeforeEquals(x, Tail(s), key)

RECURSIVE InsertBy(_, _, _)
\* x inserted into the key-sorted sequence s after every element whose key is
\* not greater: the insertion step of a stable sort
InsertBy(x, s, key) ==
    IF s = <<>> THEN <<x>>
    ELSE IF key[x] < key[Head(s)] THEN <<x>> \o s
    ELSE <<Head(s)>> \o InsertBy(x, Tail(s), key)

RECURSIVE SortBy(_, _)
\* Array.prototype.sort with comparator (a, b) => key[a] - key[b]: ascending
\* by key and stable, so equal keys keep their order in s
SortBy(s, key) ==
    IF s = <<>> THEN <<>>
    ELSE InsertBy(s[Len(s)], SortBy(SubSeq(s, 1, Len(s) - 1), key), key)

\* =========================================================================
\* EnhancedAIProvider (src/ai-providers.js)
\* =========================================================================

\* the keys of this.providers, in declaration order
providers == <<"gemini", "openai", "claude", "groq", "huggingface", "ollama">>

ProviderSet == Range(providers)

fallbackChain == <<"gemini", "openai", "claude", "groq">>

\* CostOptimizer.providerCosts, in declaration order; cost is in hundredths
\* (0.15 -> 15, 3.00 -> 300, 0.20 -> 20) so that it stays an integer
providerCostKeys == <<"gemini", "openai", "claude", "groq", "huggingface", "ollama">>

providerCosts ==
    [p \in Range(providerCostKeys) |->
        CASE p = "gemini"      -> [cost |-> 0,   speed |-> 8,  quality |-> 9]
          [] p = "openai"      -> [cost |-> 15,  speed |-> 7,  quality |-> 10]
          [] p = "claude"      -> [cost |-> 300, speed |-> 6,  quality |-> 10]
          [] p = "groq"        -> [cost |-> 20,  speed |-> 10, quality |-> 7]
          [] p = "huggingface" -> [cost |-> 0,   speed |-> 5,  quality |-> 6]
          [] p = "ollama"      -> [cost |-> 0,   speed |-> 4,  quality |-> 6]]

getCheapestProvider ==
    SortBy(providerCostKeys, [p \in Range(providerCostKeys) |-> providerCosts[p].cost])[1]

getFastestProvider ==
    SortBy(providerCostKeys, [p \in Range(providerCostKeys) |-> 0 - providerCosts[p].speed])[1]

getBestQualityProvider ==
    SortBy(providerCostKeys, [p \in Range(providerCostKeys) |-> 0 - providerCosts[p].quality])[1]

\* the option flags a caller may set; options is the set of flags that are truthy
OptionFlags == {"costOptimized", "performanceOptimized", "qualityOptimized"}

\* the options the callers are drawn from: none, each flag alone, all together
OptionInputs == {{}, OptionFlags} \cup {{f} : f \in OptionFlags}

VARIABLES
    currentProvider,  \* this.currentProvider
    usageStats,       \* this.usageStats: provider -> {calls, totalDuration, totalTokens, errors}
    gpc,              \* where the generate call stands
    gOptions,         \* the call's options
    gHealthy,         \* the backends whose generate() resolves during this call
    gProvider,        \* const provider = this.selectProvider(options)
    gIdx,             \* position of the for-of loop in fallbackChain
    gElapsed,         \* Date.now() - startTime
    gResponse,        \* what the call returned
    gError,           \* the error the call threw
    gAttempts,        \* history: the backends called during this call, in order
    gStatsAtStart,    \* history: usageStats when the call started
    gCalls            \* generate calls started so far

gvars == <<currentProvider, usageStats, gpc, gOptions, gHealthy, gProvider, gIdx,
           gElapsed, gResponse, gError, gAttempts, gStatsAtStart, gCalls>>

NoProvider == "none"
NoResponse == [from |-> NoProvider, length |-> 0]

\* An error is its message and its cause: the backend whose error it carries
\* (NoProvider for an error made without one).
NothingThrown == [message |-> "", cause |-> NoProvider]

\* new Error('All AI providers failed')
AllProvidersFailed == [message |-> "All AI providers failed", cause |-> NoProvider]

selectProvider(options) ==
    IF "costOptimized" \in options THEN getCheapestProvider
    ELSE IF "performanceOptimized" \in options THEN getFastestProvider
    ELSE IF "qualityOptimized" \in options THEN getBestQualityProvider
    ELSE currentProvider

trackUsage(stats, provider, duration, responseLength) ==
    LET base == IF provider \in DOMAIN stats THEN stats[provider]
                ELSE [calls |-> 0, totalDuration |-> 0, totalTokens |-> 0, errors |-> 0]
        new  == [base EXCEPT !.calls = @ + 1,
                             !.totalDuration = @ + duration,
                             !.totalTokens = @ + responseLength]
    IN [p \in DOMAIN stats \cup {provider} |-> IF p = provider THEN new ELSE stats[p]]

\* the errors counter of a provider's usage record (0 while the record is absent)
ErrorsOf(stats, p) == IF p \in DOMAIN stats THEN stats[p].errors ELSE 0

CallsOf(stats, p) == IF p \in DOMAIN stats THEN stats[p].calls ELSE 0

GInit ==
    /\ currentProvider = "gemini"
    /\ usageStats = <<>>
    /\ gpc = "idle"
    /\ gOptions = {}
    /\ gHealthy = {}
    /\ gProvider = NoProvider
    /\ gIdx = 0
    /\ gElapsed = 0
    /\ gResponse = NoResponse
    /\ gError = NothingThrown
    /\ gAttempts = <<>>
    /\ gStatsAtStart = <<>>
    /\ gCalls = 0

\* generate(prompt, options) up to its first await: the primary is selected and called
GenerateStart ==
    /\ gpc \in {"idle", "returned", "failed"}
    /\ gCalls < MaxCalls
    /\ \E options \in OptionInputs, healthy \in SUBSET ProviderSet :
        /\ gOptions' = options
        /\ gHealthy' = healthy
        /\ gProvider' = selectProvider(options)
        /\ gAttempts' = <<selectProvider(options)>>
    /\ gpc' = "primary"
    /\ gIdx' = 0
    /\ gElapsed' = 0
    /\ gResponse' = NoResponse
    /\ gError' = NothingThrown
    /\ gStatsAtStart' = usageStats
    /\ gCalls' = gCalls + 1
    /\ UNCHANGED <<currentProvider, usageStats>>

\* the index of the next fallbackChain entry at or after i that the loop calls
\* (the entries equal to this.currentProvider are passed over); Len + 1 if none
RECURSIVE NextFallback(_)
NextFallback(i) ==
    IF i > Len(fallbackChain) THEN i
    ELSE IF fallbackChain[i] # currentProvider THEN i
    ELSE NextFallback(i + 1)

\* after a failed attempt: call the next fallback provider, or leave the loop and throw
EnterFallback(from) ==
    LET j == NextFallback(from)
    IN IF j > Len(fallbackChain)
       THEN /\ gpc' = "failed"
            /\ gIdx' = j
            /\ gError' = AllProvidersFailed
            /\ UNCHANGED gAttempts
       ELSE /\ gpc' = "fallback"
            /\ gIdx' = j
            /\ gAttempts' = Append(gAttempts, fallbackChain[j])
            /\ UNCHANGED gError

\* the primary's promise settles
PrimarySettles ==
    /\ gpc = "primary"
    /\ LET d == AttemptLatency IN
        /\ gElapsed' = gElapsed + d
        /\ IF gProvider \in gHealthy
           THEN \E len \in 1..MaxResponseLength :
                /\ usageStats' = trackUsage(usageStats, gProvider, gElapsed + d, len)
                /\ gResponse' = [from |-> gProvider, length |-> len]
                /\ gpc' = "returned"
                /\ UNCHANGED <<gIdx, gAttempts, gError>>
           ELSE /\ EnterFallback(1)
                /\ UNCHANGED <<usageStats, gResponse>>
    /\ UNCHANGED <<currentProvider, gOptions, gHealthy, gProvider, gStatsAtStart, gCalls>>

\* the promise of the fallback provider under way settles
FallbackSettles ==
    /\ gpc = "fallback"
    /\ LET d == AttemptLatency IN
        /\ gElapsed' = gElapsed + d
        /\ IF fallbackChain[gIdx] \in gHealthy
           THEN \E len \in 1..MaxResponseLength :
                /\ usageStats' = trackUsage(usageStats, fallbackChain[gIdx], gElapsed + d, len)
                /\ gResponse' = [from |-> fallbackChain[gIdx], length |-> len]
                /\ gpc' = "returned"
                /\ UNCHANGED <<gIdx, gAttempts, gError>>
           ELSE /\ EnterFallback(gIdx + 1)
                /\ UNCHANGED <<usageStats, gResponse>>
    /\ UNCHANGED <<currentProvider, gOptions, gHealthy, gProvider, gStatsAtStart, gCalls>>

GNext == GenerateStart \/ PrimarySettles \/ FallbackSettles

\* =========================================================================
\* SecurityManager (src/security.js)
\* =========================================================================

Agents == {"agent1", "agent2"}

\* the capability tokens the callers grant and revoke
PermissionInputs == {"execute", "filesystem"}

NoAgent == "undefined"

\* const windowMs = 60000 of checkRateLimit
windowMs == 60000

\* sandboxConfig.maxExecutionTime
maxExecutionTime == 30000

\* sandboxConfig.blockedPatterns, in order; a pattern stands for the text it matches
blockedPatterns ==
    <<"eval(", "Function(", "setTimeout(", "setInterval(", "import(", "require(">>

BLOCKED == "/* BLOCKED */"

\* Code is a sequence of tokens. Besides the blocked constructs and comments a
\* payload holds the statement that decides how it ends: "return" (a value,
\* synchronously), "throw" (synchronously) or "promise" (it returns a Promise).
CodeInputs ==
    { <<"return">>, <<"promise">>, <<"eval(", "throw">> }

\* the clock advances the callers are drawn from (milliseconds)
TickInputs == {maxExecutionTime, windowMs - 1}

VARIABLES
    permissions,   \* this.permissions: a Map agentId -> Set of permissions
    rateLimits,    \* this.rateLimits: a Map agentId -> array of timestamps
    quarantine,    \* this.quarantine: a Set of agentIds
    auditLog,      \* this.auditLog
    auditWritten,  \* history: every entry logAudit was called with, in call order
    now,           \* Date.now()
    invocations,   \* the executeInSandbox calls that are past their checks
    last,          \* history: what the latest handler did
    admitted,      \* history: per agent, the times of the calls the rate limiter let pass
    qSnapshot,     \* history: per quarantined agent, permissions and rateLimits at quarantine
    nInvocations,  \* executeInSandbox calls so far
    nAdminOps,     \* permission and quarantine calls so far
    nTicks         \* clock advances so far

svars == <<permissions, rateLimits, quarantine, auditLog, auditWritten, now, invocations, last,
           admitted, qSnapshot, nInvocations, nAdminOps, nTicks>>

Entry(action, agentId, detail) ==
    [action |-> action, agentId |-> agentId, detail |-> detail, timestamp |-> now]

\* logAudit as it would be with slice(0, n) for slice(-n): the oldest entries kept
logAudit_KeepsOldest(log, entry) ==
    LET pushed == Append(log, entry)
    IN IF Len(pushed) > maxAuditEntries
       THEN SubSeq(pushed, 1, maxAuditEntries)
       ELSE pushed

\* logAudit: push, then keep only the last maxAuditEntries entries
logAudit(log, entry) ==
    LET pushed == Append(log, entry)
    IN IF Len(pushed) > maxAuditEntries
       THEN SubSeq(pushed, Len(pushed) - maxAuditEntries + 1, Len(pushed))
       ELSE pushed

RECURSIVE logAuditAll(_, _)
\* consecutive logAudit calls, one per entry
logAuditAll(log, entries) ==
    IF entries = <<>> THEN log
    ELSE logAuditAll(logAudit(log, Head(entries)), Tail(entries))

hasPermission(agentId, permission) ==
    /\ agentId \in DOMAIN permissions
    /\ permission \in permissions[agentId]

isQuarantined(agentId) == agentId \in quarantine

RECURSIVE ReplaceFirst(_, _, _)
\* String.prototype.replace with a pattern that has no g flag: the first match only
ReplaceFirst(code, pattern, by) ==
    IF code = <<>> THEN <<>>
    ELSE IF Head(code) = pattern THEN <<by>> \o Tail(code)
    ELSE <<Head(code)>> \o ReplaceFirst(Tail(code), pattern, by)

IsComment(token) == token = BLOCKED \/ token = "/* */" \/ token = "//"

RECURSIVE StripComments(_)
StripComments(code) ==
    IF code = <<>> THEN <<>>
    ELSE IF IsComment(Head(code)) THEN StripComments(Tail(code))
    ELSE <<Head(code)>> \o StripComments(Tail(code))

RECURSIVE SanitizeFrom(_, _, _)
\* the forEach over blockedPatterns from index i on: [code, detected]
SanitizeFrom(i, code, detected) ==
    IF i > Len(blockedPatterns) THEN [code |-> code, detected |-> detected]
    ELSE IF blockedPatterns[i] \in Range(code)
         THEN SanitizeFrom(i + 1, ReplaceFirst(code, blockedPatterns[i], BLOCKED),
                           Append(detected, blockedPatterns[i]))
         ELSE SanitizeFrom(i + 1, code, detected)

\* sanitizeCode: [code |-> the sanitized code, entries |-> the audit entries it logs]
sanitizeCode(code) ==
    LET r == SanitizeFrom(1, code, <<>>)
    IN [code    |-> StripComments(r.code),
        entries |-> [i \in 1..Len(r.detected) |->
                        Entry("dangerous_code_detected", NoAgent, r.detected[i])]]

\* requests.filter(time => now - time < windowMs)
RECURSIVE ValidRequests(_)
ValidRequests(requests) ==
    IF requests = <<>> THEN <<>>
    ELSE IF now - Head(requests) < windowMs
         THEN <<Head(requests)>> \o ValidRequests(Tail(requests))
         ELSE ValidRequests(Tail(requests))

\* checkRateLimit as it would be with > for >= in the comparison with maxRequests
checkRateLimit_OffByOne(agentId) ==
    LET requests == IF agentId \in DOMAIN rateLimits THEN rateLimits[agentId] ELSE <<>>
        validRequests == ValidRequests(requests)
        put(list) == [a \in DOMAIN rateLimits \cup {agentId} |->
                         IF a = agentId THEN list ELSE rateLimits[a]]
    IN IF Len(validRequests) > maxRequests
       THEN [ok |-> FALSE, rateLimits |-> put(validRequests),
             entries |-> <<Entry("rate_limit_exceeded", agentId, "")>>]
       ELSE [ok |-> TRUE, rateLimits |-> put(Append(validRequests, now)),
             entries |-> <<>>]

\* checkRateLimit: [ok, rateLimits |-> the map afterwards, entries |-> what it logs]
checkRateLimit(agentId) ==
    LET requests == IF agentId \in DOMAIN rateLimits THEN rateLimits[agentId] ELSE <<>>
        validRequests == ValidRequests(requests)
        put(list) == [a \in DOMAIN rateLimits \cup {agentId} |->
                         IF a = agentId THEN list ELSE rateLimits[a]]
    IN IF Len(validRequests) >= maxRequests
       THEN [ok |-> FALSE, rateLimits |-> put(validRequests),
             entries |-> <<Entry("rate_limit_exceeded", agentId, "")>>]
       ELSE [ok |-> TRUE, rateLimits |-> put(Append(validRequests, now)),
             entries |-> <<>>]

\* how runInSandbox(sanitizedCode) ends: the first deciding statement wins; code
\* without one runs to its end and returns undefined
RECURSIVE runInSandbox(_)
runInSandbox(code) ==
    IF code = <<>> THEN "resolved"
    ELSE IF Head(code) = "return" THEN "resolved"
    ELSE IF Head(code) = "throw" THEN "rejected"
    ELSE IF Head(code) = "promise" THEN "pending"
    ELSE runInSandbox(Tail(code))

\* a payload may hold "spin": a synchronous loop that keeps the thread for longer
\* than maxExecutionTime before the payload goes on
SpinTime == maxExecutionTime + 1

\* the time the synchronous call of the payload takes
SyncDuration(code) == IF "spin" \in Range(code) THEN SpinTime ELSE 0

\* the messages of the errors executeInSandbox throws
PermissionDenied == "Agent does not have execution permission"
WorkerQuarantined == "Agent is quarantined"
RateLimitExceeded == "Rate limit exceeded"
ExecutionTimeout == "Execution timeout"
PayloadError == "payload error"

\* executeInSandbox as it would be with the quarantine check ahead of the permission check
executeInSandboxChecks_QuarantineFirst(code, agentId) ==
    IF agentId \in quarantine
    THEN [error |-> WorkerQuarantined, entries |-> <<>>,
          rateLimits |-> rateLimits, phase |-> "none"]
    ELSE IF ~hasPermission(agentId, "execute")
    THEN [error |-> PermissionDenied, entries |-> <<>>,
          rateLimits |-> rateLimits, phase |-> "none"]
    ELSE LET s == sanitizeCode(code)
             r == checkRateLimit(agentId)
         IN IF ~r.ok
            THEN [error |-> RateLimitExceeded, entries |-> s.entries \o r.entries,
                  rateLimits |-> r.rateLimits, phase |-> "none"]
            ELSE [error |-> "none", entries |-> s.entries,
                  rateLimits |-> r.rateLimits, phase |-> runInSandbox(s.code)]

\* executeInSandbox as it would be with the rate limit checked ahead of sanitizeCode
executeInSandboxChecks_RateBeforeSanitize(code, agentId) ==
    IF ~hasPermission(agentId, "execute")
    THEN [error |-> PermissionDenied, entries |-> <<>>,
          rateLimits |-> rateLimits, phase |-> "none"]
    ELSE IF agentId \in quarantine
    THEN [error |-> WorkerQuarantined, entries |-> <<>>,
          rateLimits |-> rateLimits, phase |-> "none"]
    ELSE LET r == checkRateLimit(agentId)
             s == sanitizeCode(code)
         IN IF ~r.ok
            THEN [error |-> RateLimitExceeded, entries |-> r.entries,
                  rateLimits |-> r.rateLimits, phase |-> "none"]
            ELSE [error |-> "none", entries |-> s.entries,
                  rateLimits |-> r.rateLimits, phase |-> runInSandbox(s.code)]

\* executeInSandbox as it would be without the quarantine check
executeInSandboxChecks_NoQuarantineCheck(code, agentId) ==
    IF ~hasPermission(agentId, "execute")
    THEN [error |-> PermissionDenied, entries |-> <<>>,
          rateLimits |-> rateLimits, phase |-> "none"]
    ELSE LET s == sanitizeCode(code)
             r == checkRateLimit(agentId)
         IN IF ~r.ok
            THEN [error |-> RateLimitExceeded, entries |-> s.entries \o r.entries,
                  rateLimits |-> r.rateLimits, phase |-> "none"]
            ELSE [error |-> "none", entries |-> s.entries,
                  rateLimits |-> r.rateLimits, phase |-> runInSandbox(s.code)]

\* executeInSandbox as it would be with the quarantine check after the rate limit check
executeInSandboxChecks_QuarantineLast(code, agentId) ==
    IF ~hasPermission(agentId, "execute")
    THEN [error |-> PermissionDenied, entries |-> <<>>,
          rateLimits |-> rateLimits, phase |-> "none"]
    ELSE LET s == sanitizeCode(code)
             r == checkRateLimit(agentId)
         IN IF ~r.ok
            THEN [error |-> RateLimitExceeded, entries |-> s.entries \o r.entries,
                  rateLimits |-> r.rateLimits, phase |-> "none"]
            ELSE IF agentId \in quarantine
            THEN [error |-> WorkerQuarantined, entries |-> s.entries,
                  rateLimits |-> r.rateLimits, phase |-> "none"]
            ELSE [error |-> "none", entries |-> s.entries,
                  rateLimits |-> r.rateLimits, phase |-> runInSandbox(s.code)]

\* executeInSandbox up to its await: the checks in the order of the code, and the
\* call of the payload. [error, entries, rateLimits, phase]
executeInSandboxChecks(code, agentId) ==
    IF ~hasPermission(agentId, "execute")
    THEN [error |-> PermissionDenied, entries |-> <<>>,
          rateLimits |-> rateLimits, phase |-> "none"]
    ELSE IF agentId \in quarantine
    THEN [error |-> WorkerQuarantined, entries |-> <<>>,
          rateLimits |-> rateLimits, phase |-> "none"]
    ELSE LET s == sanitizeCode(code)
             r == checkRateLimit(agentId)
         IN IF ~r.ok
            THEN [error |-> RateLimitExceeded, entries |-> s.entries \o r.entries,
                  rateLimits |-> r.rateLimits, phase |-> "none"]
            ELSE [error |-> "none", entries |-> s.entries,
                  rateLimits |-> r.rateLimits, phase |-> runInSandbox(s.code)]

Free == [agent |-> NoAgent, phase |-> "free", started |-> 0]

NoSnapshot == [taken |-> FALSE]

Did(op, agentId, outcome, appended, code) ==
    [op |-> op, agent |-> agentId, outcome |-> outcome, appended |-> appended,
     code |-> code, snapshot |-> NoSnapshot]

SInit ==
    /\ permissions = <<>>
    /\ rateLimits = <<>>
    /\ quarantine = {}
    /\ auditLog = <<>>
    /\ auditWritten = <<>>
    /\ now = 0
    /\ invocations = [i \in 1..MaxInFlight |-> Free]
    /\ last = Did("constructor", NoAgent, "", <<>>, <<>>)
    /\ admitted = [a \in Agents |-> <<>>]
    /\ qSnapshot = [a \in Agents |-> NoSnapshot]
    /\ nInvocations = 0
    /\ nAdminOps = 0
    /\ nTicks = 0

grantPermission(agentId, permission) ==
    /\ nAdminOps' = nAdminOps + 1
    /\ permissions' =
          [a \in DOMAIN permissions \cup {agentId} |->
              IF a = agentId
              THEN (IF a \in DOMAIN permissions THEN permissions[a] ELSE {}) \cup {permission}
              ELSE permissions[a]]
    /\ LET e == Entry("permission_granted", agentId, permission)
       IN /\ auditLog' = logAudit(auditLog, e)
          /\ auditWritten' = Append(auditWritten, e)
          /\ last' = Did("grantPermission", agentId, "", <<e>>, <<>>)
    /\ qSnapshot' = [a \in Agents |-> NoSnapshot]
    /\ UNCHANGED <<rateLimits, quarantine, now, invocations, admitted, nInvocations, nTicks>>

revokePermission(agentId, permission) ==
    /\ nAdminOps' = nAdminOps + 1
    /\ IF agentId \in DOMAIN permissions
       THEN LET e == Entry("permission_revoked", agentId, permission)
            IN /\ permissions' = [permissions EXCEPT ![agentId] = @ \ {permission}]
               /\ auditLog' = logAudit(auditLog, e)
               /\ auditWritten' = Append(auditWritten, e)
               /\ last' = Did("revokePermission", agentId, "", <<e>>, <<>>)
       ELSE /\ last' = Did("revokePermission", agentId, "", <<>>, <<>>)
            /\ UNCHANGED <<permissions, auditLog, auditWritten>>
    /\ qSnapshot' = [a \in Agents |-> NoSnapshot]
    /\ UNCHANGED <<rateLimits, quarantine, now, invocations, admitted, nInvocations, nTicks>>

quarantineAgent(agentId, reason) ==
    /\ nAdminOps' = nAdminOps + 1
    /\ quarantine' = quarantine \cup {agentId}
    /\ LET e == Entry("agent_quarantined", agentId, reason)
       IN /\ auditLog' = logAudit(auditLog, e)
          /\ auditWritten' = Append(auditWritten, e)
          /\ last' = Did("quarantineAgent", agentId, "", <<e>>, <<>>)
    /\ qSnapshot' = [qSnapshot EXCEPT ![agentId] =
                        [taken |-> TRUE, permissions |-> permissions,
                         rateLimits |-> rateLimits, attempted |-> FALSE]]
    /\ UNCHANGED <<permissions, rateLimits, now, invocations, admitted, nInvocations, nTicks>>

releaseAgent(agentId) ==
    /\ nAdminOps' = nAdminOps + 1
    /\ quarantine' = quarantine \ {agentId}
    /\ LET e == Entry("agent_released", agentId, "")
       IN /\ auditLog' = logAudit(auditLog, e)
          /\ auditWritten' = Append(auditWritten, e)
          /\ last' = [Did("releaseAgent", agentId, "", <<e>>, <<>>)
                         EXCEPT !.snapshot = qSnapshot[agentId]]
    /\ qSnapshot' = [qSnapshot EXCEPT ![agentId] = NoSnapshot]
    /\ UNCHANGED <<permissions, rateLimits, now, invocations, admitted, nInvocations, nTicks>>

\* the lowest free slot for an invocation that starts executing (0 if none)
FreeSlot ==
    IF \E i \in 1..MaxInFlight : invocations[i].phase = "free"
    THEN CHOOSE i \in 1..MaxInFlight :
            /\ invocations[i].phase = "free"
            /\ \A j \in 1..(i - 1) : invocations[j].phase # "free"
    ELSE 0

\* executeInSandbox(code, agentId) up to its await
executeInSandbox(code, agentId) ==
    LET r == executeInSandboxChecks(code, agentId)
    IN /\ nInvocations' = nInvocations + 1
       /\ r.error = "none" => FreeSlot # 0
       /\ auditLog' = logAuditAll(auditLog, r.entries)
       /\ auditWritten' = auditWritten \o r.entries
       /\ rateLimits' = r.rateLimits
       /\ IF r.error = "none"
          THEN /\ invocations' = [invocations EXCEPT ![FreeSlot] =
                                     [agent |-> agentId, phase |-> r.phase, started |-> now]]
               /\ admitted' = [admitted EXCEPT ![agentId] = Append(@, now)]
               /\ last' = Did("executeInSandbox", agentId, "Executing", r.entries, code)
               /\ now' = now + SyncDuration(sanitizeCode(code).code)
          ELSE /\ last' = Did("executeInSandbox", agentId, r.error, r.entries, code)
               /\ UNCHANGED <<invocations, admitted, now>>
       /\ qSnapshot' = [a \in Agents |->
                          IF a = agentId /\ qSnapshot[a].taken
                          THEN [qSnapshot[a] EXCEPT !.attempted = TRUE]
                          ELSE NoSnapshot]
       /\ UNCHANGED <<permissions, quarantine, nAdminOps, nTicks>>

\* the Promise the payload returned settles (or, after a timeout, settles unheard)
PayloadSettles(i, how) ==
    /\ invocations[i].phase \in {"pending", "orphan"}
    /\ invocations' = [invocations EXCEPT ![i] =
                          IF @.phase = "orphan" THEN Free ELSE [@ EXCEPT !.phase = how]]
    /\ last' = Did("payloadSettles", invocations[i].agent, "", <<>>, <<>>)
    /\ UNCHANGED <<permissions, rateLimits, quarantine, auditLog, auditWritten, now, admitted,
                   qSnapshot,
                   nInvocations, nAdminOps, nTicks>>

\* the timer of executeWithTimeout fires: the outer promise is rejected
TimerFires(i) ==
    /\ invocations[i].phase = "pending"
    /\ now - invocations[i].started >= maxExecutionTime
    /\ invocations' = [invocations EXCEPT ![i].phase = "timedout"]
    /\ last' = Did("timerFires", invocations[i].agent, "", <<>>, <<>>)
    /\ UNCHANGED <<permissions, rateLimits, quarantine, auditLog, auditWritten, now, admitted,
                   qSnapshot,
                   nInvocations, nAdminOps, nTicks>>

\* executeInSandbox resumes after its await: the outcome is logged
AwaitResumes(i) ==
    LET inv == invocations[i]
        e == IF inv.phase = "resolved" THEN Entry("code_executed", inv.agent, "success")
             ELSE IF inv.phase = "rejected"
                  THEN Entry("code_execution_failed", inv.agent, PayloadError)
                  ELSE Entry("code_execution_failed", inv.agent, ExecutionTimeout)
        outcome == IF inv.phase = "resolved" THEN "Completed"
                   ELSE IF inv.phase = "rejected" THEN "Failed" ELSE "TimedOut"
    IN /\ inv.phase \in {"resolved", "rejected", "timedout"}
       /\ auditLog' = logAudit(auditLog, e)
       /\ auditWritten' = Append(auditWritten, e)
       /\ invocations' = [invocations EXCEPT ![i] =
                             IF inv.phase = "timedout" THEN [@ EXCEPT !.phase = "orphan"]
                             ELSE Free]
       /\ last' = Did("awaitResumes", inv.agent, outcome, <<e>>, <<>>)
       /\ UNCHANGED <<permissions, rateLimits, quarantine, now, admitted, qSnapshot,
                      nInvocations, nAdminOps, nTicks>>

\* time passes
Tick(d) ==
    /\ nTicks' = nTicks + 1
    /\ now' = now + d
    /\ last' = Did("tick", NoAgent, "", <<>>, <<>>)
    /\ UNCHANGED <<permissions, rateLimits, quarantine, auditLog, auditWritten, invocations,
                   admitted,
                   qSnapshot, nInvocations, nAdminOps>>

\* the handlers a caller may invoke next, within the bounds of the model
AdminCall ==
    /\ nAdminOps < MaxAdminOps
    /\ \/ \E a \in Agents, p \in PermissionInputs : grantPermission(a, p)
       \/ \E a \in Agents, p \in PermissionInputs : revokePermission(a, p)
       \/ \E a \in Agents : quarantineAgent(a, "anomaly")
       \/ \E a \in Agents : releaseAgent(a)

SandboxCall ==
    /\ nInvocations < MaxInvocations
    /\ \E a \in Agents, code \in CodeInputs : executeInSandbox(code, a)

SandboxProgress ==
    \/ \E i \in 1..MaxInFlight, how \in {"resolved", "rejected"} : PayloadSettles(i, how)
    \/ \E i \in 1..MaxInFlight : AwaitResumes(i)

SNext == AdminCall \/ SandboxCall \/ SandboxProgress

\* the rate limiter under a moving clock: workers are granted execute, call the
\* sandbox with a payload that returns, and time passes
RateNext ==
    \/ /\ nAdminOps < Cardinality(Agents)
       /\ \E a \in Agents : grantPermission(a, "execute")
    \/ /\ nInvocations < maxRequests + 2
       /\ \E a \in Agents : executeInSandbox(<<"return">>, a)
    \/ \E i \in 1..MaxInFlight : AwaitResumes(i)
    \/ /\ nTicks < MaxTicks
       /\ \E d \in TickInputs : Tick(d)

\* the payloads of the timeout behaviours: one that returns a Promise, and one
\* that spins synchronously and then returns
TimeoutCodeInputs == { <<"promise">>, <<"spin", "return">> }

\* an await is about to resume: its continuation runs before the clock is read again
Resuming ==
    \E i \in 1..MaxInFlight : invocations[i].phase \in {"resolved", "rejected", "timedout"}

\* the wall-clock timeout: workers are granted execute and call the sandbox, the
\* payload settles or the timer fires, and time passes
TimeoutNext ==
    \/ /\ nAdminOps < Cardinality(Agents)
       /\ \E a \in Agents : grantPermission(a, "execute")
    \/ /\ nInvocations < MaxInvocations
       /\ \E a \in Agents, code \in TimeoutCodeInputs : executeInSandbox(code, a)
    \/ \E i \in 1..MaxInFlight, how \in {"resolved", "rejected"} : PayloadSettles(i, how)
    \/ \E i \in 1..MaxInFlight : TimerFires(i)
    \/ \E i \in 1..MaxInFlight : AwaitResumes(i)
    \/ /\ nTicks < MaxTicks
       /\ ~Resuming
       /\ Tick(maxExecutionTime)

\* ------------------------------------------- monitoring and the audit ids

\* const recentWindow = 5 * 60 * 1000 of detectAnomalies
recentWindow == 5 * 60 * 1000

\* the payloads of the monitoring behaviours: one that throws, and one that
\* holds the same blocked construct twice
MonitorCodeInputs == { <<"throw">>, <<"eval(", "eval(", "return">> }

\* the clock advance of the monitoring behaviours: half the window, so that an
\* entry is exactly recentWindow old after two of them
MonitorTickInputs == {recentWindow \div 2}

VARIABLES
    anomalies,       \* what detectAnomalies returned, if it was the latest handler
    securityStatus,  \* what getSecurityStatus returned, if it was the latest handler
    auditIds         \* history: the id of every entry logAudit made, in call order
                     \* (times RandomScale; recorded in the audit-id behaviours only)

mvars == <<anomalies, securityStatus, auditIds>>

NoStatus == [quarantinedAgents |-> {}, totalPermissions |-> 0, auditLogSize |-> 0,
             anomalies |-> <<>>]

MInit ==
    /\ anomalies = <<>>
    /\ securityStatus = NoStatus
    /\ auditIds = <<>>

\* the entries of log with the given action that are less than recentWindow old
RecentEntries(log, action) ==
    SelectSeq(log, LAMBDA e : e.action = action /\ now - e.timestamp < recentWindow)

\* detectAnomalies as it would be with >= for > in the comparison with the threshold
detectAnomalies_AtThreshold ==
    LET recentFailures == Len(RecentEntries(auditLog, "code_execution_failed"))
        suspiciousPatterns == Len(RecentEntries(auditLog, "dangerous_code_detected"))
    IN (IF recentFailures >= failureThreshold
        THEN <<[type |-> "excessive_failures", severity |-> "high", count |-> recentFailures]>>
        ELSE <<>>)
       \o (IF suspiciousPatterns >= patternThreshold
           THEN <<[type |-> "suspicious_patterns", severity |-> "critical",
                   count |-> suspiciousPatterns]>>
           ELSE <<>>)

\* detectAnomalies(): the anomalies array
detectAnomalies ==
    LET recentFailures == Len(RecentEntries(auditLog, "code_execution_failed"))
        suspiciousPatterns == Len(RecentEntries(auditLog, "dangerous_code_detected"))
    IN (IF recentFailures > failureThreshold
        THEN <<[type |-> "excessive_failures", severity |-> "high", count |-> recentFailures]>>
        ELSE <<>>)
       \o (IF suspiciousPatterns > patternThreshold
           THEN <<[type |-> "suspicious_patterns", severity |-> "critical",
                   count |-> suspiciousPatterns]>>
           ELSE <<>>)

RECURSIVE SumSizes(_)
\* Array.from(this.permissions.values()).reduce((sum, perms) => sum + perms.size, 0)
SumSizes(S) ==
    IF S = {} THEN 0
    ELSE LET a == CHOOSE a \in S : TRUE
         IN Cardinality(permissions[a]) + SumSizes(S \ {a})

\* getAuditLog(filter): filter is a record that holds the fields the caller set
getAuditLog(filter) ==
    LET byAction == IF "action" \in DOMAIN filter
                    THEN SelectSeq(auditLog, LAMBDA e : e.action = filter.action)
                    ELSE auditLog
        byAgent == IF "agentId" \in DOMAIN filter
                   THEN SelectSeq(byAction, LAMBDA e : e.agentId = filter.agentId)
                   ELSE byAction
    IN IF "since" \in DOMAIN filter
       THEN SelectSeq(byAgent, LAMBDA e : e.timestamp >= filter.since)
       ELSE byAgent

\* a detectAnomalies() call as it would be if it quarantined every worker with a
\* recent failure whenever it reports an anomaly
DetectAnomalies_AutoQuarantine ==
    /\ anomalies' = detectAnomalies
    /\ quarantine' =
          IF detectAnomalies = <<>> THEN quarantine
          ELSE quarantine \cup
               {e.agentId : e \in Range(RecentEntries(auditLog, "code_execution_failed"))}
    /\ securityStatus' = NoStatus
    /\ last' = Did("detectAnomalies", NoAgent, "", <<>>, <<>>)
    /\ UNCHANGED <<permissions, rateLimits, auditLog, auditWritten, now, invocations,
                   admitted, qSnapshot, nInvocations, nAdminOps, nTicks>>

\* a detectAnomalies() call
DetectAnomalies ==
    /\ anomalies' = detectAnomalies
    /\ securityStatus' = NoStatus
    /\ last' = Did("detectAnomalies", NoAgent, "", <<>>, <<>>)
    /\ UNCHANGED <<permissions, rateLimits, quarantine, auditLog, auditWritten, now, invocations,
                   admitted, qSnapshot, nInvocations, nAdminOps, nTicks>>

\* a getSecurityStatus() call
GetSecurityStatus ==
    /\ securityStatus' = [quarantinedAgents |-> quarantine,
                          totalPermissions  |-> SumSizes(DOMAIN permissions),
                          auditLogSize      |-> Len(auditLog),
                          anomalies         |-> detectAnomalies]
    /\ anomalies' = <<>>
    /\ last' = Did("getSecurityStatus", NoAgent, "", <<>>, <<>>)
    /\ UNCHANGED <<permissions, rateLimits, quarantine, auditLog, auditWritten, now, invocations,
                   admitted, qSnapshot, nInvocations, nAdminOps, nTicks>>

\* a handler of this step is not one of the monitor's: nothing of the monitor
\* is returned
NoMonitorCall ==
    /\ anomalies' = <<>>
    /\ securityStatus' = NoStatus

\* the latest handler was a monitor call that reported an anomaly
AnomalyReported ==
    \/ anomalies # <<>>
    \/ securityStatus.anomalies # <<>>

\* the monitoring behaviours: workers are granted execute, payloads fail and
\* dangerous patterns are detected, time passes, the monitor is asked for
\* anomalies, and the operator quarantines a worker on a report and releases it
MonitorNext ==
    \/ /\ nAdminOps < MaxAdminOps
       /\ \E a \in Agents : grantPermission(a, "execute")
       /\ NoMonitorCall
    \/ /\ nAdminOps < MaxAdminOps
       /\ AnomalyReported
       /\ \E a \in Agents : quarantineAgent(a, "anomaly")
       /\ NoMonitorCall
    \/ /\ nAdminOps < MaxAdminOps
       /\ \E a \in quarantine : releaseAgent(a)
       /\ NoMonitorCall
    \/ /\ nInvocations < MaxInvocations
       /\ \E a \in Agents, code \in MonitorCodeInputs : executeInSandbox(code, a)
       /\ NoMonitorCall
    \/ /\ \E i \in 1..MaxInFlight : AwaitResumes(i)
       /\ NoMonitorCall
    \/ /\ nTicks < MaxTicks
       /\ ~Resuming
       /\ \E d \in MonitorTickInputs : Tick(d)
       /\ NoMonitorCall
    \/ DetectAnomalies
    \/ GetSecurityStatus

\* Date.now() + Math.random() with Math.random() = r / RandomScale, times RandomScale
LogId(r) == now * RandomScale + r

\* the ids of the entries this step logged: each logAudit call draws its own
\* Math.random()
StampIds ==
    LET k == Len(auditWritten') - Len(auditWritten)
    IN \E rs \in [1..k -> 0..(RandomScale - 1)] :
          auditIds' = auditIds \o [i \in 1..k |-> LogId(rs[i])]

\* the payloads of the audit-id behaviours: one that returns a Promise, and one
\* with a blocked construct that throws
AuditIdCodeInputs == { <<"promise">>, <<"eval(", "throw">> }

\* the audit-id behaviours: handlers that log, with an invocation in flight,
\* while the clock moves by a millisecond
AuditIdNext ==
    \/ /\ nAdminOps < Cardinality(Agents)
       /\ \E a \in Agents : grantPermission(a, "execute")
       /\ StampIds
    \/ /\ nInvocations < MaxInvocations - 1
       /\ \E a \in Agents, code \in AuditIdCodeInputs : executeInSandbox(code, a)
       /\ StampIds
    \/ /\ \E i \in 1..MaxInFlight, how \in {"resolved", "rejected"} : PayloadSettles(i, how)
       /\ StampIds
    \/ /\ \E i \in 1..MaxInFlight : AwaitResumes(i)
       /\ StampIds
    \/ /\ nTicks < MaxTicks
       /\ Tick(1)
       /\ StampIds

\* =========================================================================
\* ProjectPlannerAgent.createTaskBreakdown and AgentOrchestrator
\* (src/autonomous-agents.js)
\* =========================================================================

\* A string is the sequence of its pieces: a letter, a blank, or a literal part
\* of the source such as "feature-".

\* the letters toLowerCase changes, with their lower-case forms
LowerCaseOf == [c \in {"A", "B"} |-> IF c = "A" THEN "a" ELSE "b"]

\* String.prototype.toLowerCase
toLowerCase(str) ==
    [i \in 1..Len(str) |-> IF str[i] \in DOMAIN LowerCaseOf THEN LowerCaseOf[str[i]] ELSE str[i]]

RECURSIVE ReplaceWhitespace(_, _)
\* String.prototype.replace(/\s+/g, by): every run of blanks becomes one by
ReplaceWhitespace(str, by) ==
    IF str = <<>> THEN <<>>
    ELSE IF Head(str) = " "
         THEN IF Len(str) > 1 /\ str[2] = " "
              THEN ReplaceWhitespace(Tail(str), by)
              ELSE <<by>> \o ReplaceWhitespace(Tail(str), by)
         ELSE <<Head(str)>> \o ReplaceWhitespace(Tail(str), by)

\* `feature-${feature.name.toLowerCase().replace(/\s+/g, '-')}`
FeatureId(name) == <<"feature-">> \o ReplaceWhitespace(toLowerCase(name), "-")

SetupId == <<"setup-project">>
TestingId == <<"testing">>
DeploymentId == <<"deployment">>

\* the features the requirements are drawn from; a field the document leaves
\* out is absent from the record
FeatureInputs ==
    { [name |-> <<"A">>],
      [name |-> <<"a">>, priority |-> "high", dependencies |-> <<>>],
      [name |-> <<"A", " ", " ", "B">>, priority |-> "low",
       dependencies |-> <<FeatureId(<<"a">>)>>],
      [name |-> <<"A">>, dependencies |-> <<FeatureId(<<"a", " ", "b">>)>>],
      [name |-> <<"a", " ", "b">>, dependencies |-> <<FeatureId(<<"a", " ", "b">>)>>],
      [name |-> <<"B">>, dependencies |-> <<DeploymentId>>] }

RECURSIVE SeqsUpTo(_, _)
\* the sequences over S of length at most n
SeqsUpTo(S, n) ==
    IF n = 0 THEN {<<>>}
    ELSE LET shorter == SeqsUpTo(S, n - 1)
         IN shorter \cup {Append(s, x) : s \in {t \in shorter : Len(t) = n - 1}, x \in S}

\* the analyses createTaskBreakdown is called with: requirements with a feature
\* list, and requirements without one
AnalysisInputs ==
    {[requirements |-> [features |-> fs]] : fs \in SeqsUpTo(FeatureInputs, MaxFeatures)}
        \cup {[requirements |-> [description |-> "no features"]]}

\* the roles of this.agents that getAgentForTask reads
Roles == {"planner", "frontend", "testing", "deployment", "qa"}

\* the agents the orchestrator is constructed with: the roles that have a worker
AgentInputs == {Roles, Roles \ {"frontend"}, {}}

VARIABLES
    agents,            \* this.agents: the roles that hold a worker
    executionHistory,  \* this.executionHistory
    analysis,          \* the analysis createTaskBreakdown was called with
    planResult,        \* how createTaskBreakdown ended, and the tasks it returned
    projectPlan,       \* the argument of the executeProject call
    execution,         \* const execution of executeProject
    opc,               \* where the executeProject call stands
    oIdx,              \* position of the for-of loop in projectPlan.tasks
    oOutcomes,         \* history: how the worker call of each task so far ended
    nProjects          \* executeProject calls so far

ovars == <<agents, executionHistory, analysis, planResult, projectPlan, execution, opc, oIdx,
           oOutcomes, nProjects>>

TypeError == "TypeError"
WorkerError == "worker error"
NoError == "none"

\* the feature task pushed for one feature
FeatureTask(feature) ==
    [id           |-> FeatureId(feature.name),
     type         |-> "feature",
     priority     |-> IF "priority" \in DOMAIN feature THEN feature.priority ELSE "medium",
     dependencies |-> IF "dependencies" \in DOMAIN feature THEN feature.dependencies ELSE <<>>]

\* createTaskBreakdown as it would be with the testing task depending on nothing
createTaskBreakdown_TestingFree(a) ==
    IF "features" \notin DOMAIN a.requirements
    THEN [status |-> "raised", error |-> TypeError, tasks |-> <<>>]
    ELSE LET features == a.requirements.features
         IN [status |-> "returned", error |-> NoError,
             tasks |->
                <<[id |-> SetupId, type |-> "setup", priority |-> "high",
                   dependencies |-> <<>>]>>
                \o [i \in 1..Len(features) |-> FeatureTask(features[i])]
                \o <<[id |-> TestingId, type |-> "testing", priority |-> "high",
                      dependencies |-> <<>>],
                     [id |-> DeploymentId, type |-> "deployment", priority |-> "medium",
                      dependencies |-> <<TestingId>>]>>]

\* createTaskBreakdown(analysis, structure): for-of over a missing feature list
\* raises a TypeError (undefined is not iterable)
createTaskBreakdown(a) ==
    IF "features" \notin DOMAIN a.requirements
    THEN [status |-> "raised", error |-> TypeError, tasks |-> <<>>]
    ELSE LET features == a.requirements.features
         IN [status |-> "returned", error |-> NoError,
             tasks |->
                <<[id |-> SetupId, type |-> "setup", priority |-> "high",
                   dependencies |-> <<>>]>>
                \o [i \in 1..Len(features) |-> FeatureTask(features[i])]
                \o <<[id |-> TestingId, type |-> "testing", priority |-> "high",
                      dependencies |-> <<SetupId>>],
                     [id |-> DeploymentId, type |-> "deployment", priority |-> "medium",
                      dependencies |-> <<TestingId>>]>>]

NoPlanResult == [status |-> "none", error |-> NoError, tasks |-> <<>>]
NoAnalysis == [requirements |-> [description |-> "none"]]
NullPlan == [null |-> TRUE]
NoExecution == [status |-> "none"]

\* the role whose worker a task goes to: agentMap[task.type] || this.agents.planner
\* ("undefined" if neither role holds a worker)
getAgentForTask(task) ==
    LET agentMap == [t \in {"setup", "feature", "testing", "deployment", "qa"} |->
                        CASE t = "setup"      -> "planner"
                          [] t = "feature"    -> "frontend"
                          [] t = "testing"    -> "testing"
                          [] t = "deployment" -> "deployment"
                          [] t = "qa"         -> "qa"]
    IN IF task.type \in DOMAIN agentMap /\ agentMap[task.type] \in agents
       THEN agentMap[task.type]
       ELSE IF "planner" \in agents THEN "planner" ELSE "undefined"

\* executeTask after its await as it would be with every record marked completed
TaskRecord_AlwaysCompleted(task, how) ==
    [id |-> task.id, status |-> "completed", error |-> NoError]

\* the taskExecution executeTask returns: how is "resolved", "rejected" (the
\* worker raised) or "noworker" (agent.executeTask raised a TypeError)
TaskRecord(task, how) ==
    IF how = "resolved"
    THEN [id |-> task.id, status |-> "completed", error |-> NoError]
    ELSE [id |-> task.id, status |-> "failed",
          error |-> IF how = "rejected" THEN WorkerError ELSE TypeError]

RECURSIVE RunFrom_DropsNoWorker(_, _, _, _)
\* the loop as it would be if a task whose role holds no worker left no record
RunFrom_DropsNoWorker(tasks, i, exec, outs) ==
    IF i > Len(tasks) THEN [idx |-> i, exec |-> exec, outs |-> outs]
    ELSE IF getAgentForTask(tasks[i]) = "undefined"
         THEN RunFrom_DropsNoWorker(tasks, i + 1, exec, Append(outs, "noworker"))
         ELSE [idx |-> i, exec |-> exec, outs |-> outs]

RECURSIVE RunFrom(_, _, _, _)
\* the for-of loop over tasks from task i on, up to the next await of a worker:
\* a task whose role holds no worker fails at once and the loop goes on
RunFrom(tasks, i, exec, outs) ==
    IF i > Len(tasks) THEN [idx |-> i, exec |-> exec, outs |-> outs]
    ELSE IF getAgentForTask(tasks[i]) = "undefined"
         THEN RunFrom(tasks, i + 1,
                      [exec EXCEPT !.tasks = Append(@, TaskRecord(tasks[i], "noworker"))],
                      Append(outs, "noworker"))
         ELSE [idx |-> i, exec |-> exec, outs |-> outs]

OInit ==
    /\ agents \in AgentInputs
    /\ executionHistory = <<>>
    /\ analysis = NoAnalysis
    /\ planResult = NoPlanResult
    /\ projectPlan = NullPlan
    /\ execution = NoExecution
    /\ opc = "idle"
    /\ oIdx = 0
    /\ oOutcomes = <<>>
    /\ nProjects = 0

\* the planner breaks an analysis down into tasks
CreateTaskBreakdown ==
    /\ planResult.status = "none"
    /\ \E a \in AnalysisInputs :
        /\ analysis' = a
        /\ planResult' = createTaskBreakdown(a)
    /\ UNCHANGED <<agents, executionHistory, projectPlan, execution, opc, oIdx, oOutcomes,
                   nProjects>>

\* the loop's end as it would be with the execution pushed to the history
\* before its status is set to completed
Continue_PushBeforeFinal(tasks, i, exec, outs) ==
    LET r == RunFrom(tasks, i, exec, outs)
    IN /\ oIdx' = r.idx
       /\ oOutcomes' = r.outs
       /\ IF r.idx > Len(tasks)
          THEN /\ execution' = [r.exec EXCEPT !.status = "completed"]
               /\ executionHistory' = Append(executionHistory, r.exec)
               /\ opc' = "returned"
          ELSE /\ execution' = r.exec
               /\ opc' = "awaiting"
               /\ UNCHANGED executionHistory

\* the loop's end as it would be with a run that holds a failed record marked failed
Continue_FailedStatus(tasks, i, exec, outs) ==
    LET r == RunFrom(tasks, i, exec, outs)
    IN /\ oIdx' = r.idx
       /\ oOutcomes' = r.outs
       /\ IF r.idx > Len(tasks)
          THEN LET done == [r.exec EXCEPT !.status =
                              IF \E j \in 1..Len(r.exec.tasks) : r.exec.tasks[j].status = "failed"
                              THEN "failed" ELSE "completed"]
               IN /\ execution' = done
                  /\ executionHistory' = Append(executionHistory, done)
                  /\ opc' = "returned"
          ELSE /\ execution' = r.exec
               /\ opc' = "awaiting"
               /\ UNCHANGED executionHistory

\* the loop goes on from task i: it awaits the next worker, or the run is over
\* (status completed, return, and the finally block pushes the execution)
Continue(tasks, i, exec, outs) ==
    LET r == RunFrom(tasks, i, exec, outs)
    IN /\ oIdx' = r.idx
       /\ oOutcomes' = r.outs
       /\ IF r.idx > Len(tasks)
          THEN LET done == [r.exec EXCEPT !.status = "completed"]
               IN /\ execution' = done
                  /\ executionHistory' = Append(executionHistory, done)
                  /\ opc' = "returned"
          ELSE /\ execution' = r.exec
               /\ opc' = "awaiting"
               /\ UNCHANGED executionHistory

\* the plans executeProject is called with: the planner's tasks, a plan without
\* a task list, or no plan at all
PlanInputs ==
    {[id |-> "project", name |-> "malformed"], NullPlan}
        \cup (IF planResult.status = "returned"
              THEN {[id |-> "project", tasks |-> planResult.tasks]}
              ELSE {})

\* executeProject(projectPlan) up to its first await
ExecuteProject(plan) ==
    /\ opc \in {"idle", "returned", "raised"}
    /\ nProjects' = nProjects + 1
    /\ projectPlan' = plan
    /\ IF "null" \in DOMAIN plan
       THEN \* projectPlan.id raises before the try block is entered
            /\ execution' = NoExecution
            /\ opc' = "raised"
            /\ oIdx' = 0
            /\ oOutcomes' = <<>>
            /\ UNCHANGED executionHistory
       ELSE LET exec == [projectId |-> plan.id, tasks |-> <<>>, status |-> "running",
                         error |-> NoError]
            IN IF "tasks" \notin DOMAIN plan
               THEN \* for-of over undefined raises; catch, rethrow, finally
                    LET failed == [exec EXCEPT !.status = "failed", !.error = TypeError]
                    IN /\ execution' = failed
                       /\ executionHistory' = Append(executionHistory, failed)
                       /\ opc' = "raised"
                       /\ oIdx' = 0
                       /\ oOutcomes' = <<>>
               ELSE Continue(plan.tasks, 1, exec, <<>>)
    /\ UNCHANGED <<agents, analysis, planResult>>

\* the worker's promise settles; executeTask returns its record, the record is
\* pushed, and the loop goes on
WorkerSettles(how) ==
    /\ opc = "awaiting"
    /\ Continue(projectPlan.tasks, oIdx + 1,
                [execution EXCEPT !.tasks =
                    Append(@, TaskRecord(projectPlan.tasks[oIdx], how))],
                Append(oOutcomes, how))
    /\ UNCHANGED <<agents, analysis, planResult, projectPlan, nProjects>>

ONext ==
    \/ CreateTaskBreakdown
    \/ /\ nProjects < MaxProjects
       /\ \E plan \in PlanInputs : ExecuteProject(plan)
    \/ \E how \in {"resolved", "rejected"} : WorkerSettles(how)

\* =========================================================================
\* Specifications
\* =========================================================================

vars == <<gvars, svars, mvars, ovars>>

\* the state after construction, with an orchestrator whose roles all hold a
\* worker (as AutonomousAgentSystem constructs it)
Init == GInit /\ SInit /\ MInit /\ OInit /\ agents = Roles

\* the security manager, with the provider gateway at rest
Next == SNext /\ UNCHANGED <<gvars, mvars, ovars>>

Spec == Init /\ [][Next]_vars

\* the rate limiter of the security manager under a moving clock
NextRate == RateNext /\ UNCHANGED <<gvars, mvars, ovars>>

SpecRate == Init /\ [][NextRate]_vars

\* the wall-clock timeout of the sandbox
NextTimeout == TimeoutNext /\ UNCHANGED <<gvars, mvars, ovars>>

SpecTimeout == Init /\ [][NextTimeout]_vars

\* the monitor of the security manager
NextMonitor == MonitorNext /\ UNCHANGED <<gvars, ovars, auditIds>>

SpecMonitor == Init /\ [][NextMonitor]_vars

\* the ids of the audit entries
NextAuditId == AuditIdNext /\ UNCHANGED <<gvars, ovars, anomalies, securityStatus>>

SpecAuditId == Init /\ [][NextAuditId]_vars

\* the provider gateway, with the security manager at rest
NextGen == GNext /\ UNCHANGED <<svars, mvars, ovars>>

SpecGen == Init /\ [][NextGen]_vars

\* the planner's task breakdown and the orchestrator, with the rest at rest
NextPlan == ONext /\ UNCHANGED <<gvars, svars, mvars>>

\* the state after construction, with any of the orchestrators of AgentInputs
InitPlan == GInit /\ SInit /\ MInit /\ OInit

SpecPlan == InitPlan /\ [][NextPlan]_vars

\* =========================================================================
\* Claims
\* =========================================================================

\* the generate call is over
GenerateOver == gpc \in {"returned", "failed"}

\* C1: whatever the options, if at least one of the configured backends would
\* succeed on this call, generate returns the response of a succeeding backend
\* and does not throw 'All AI providers failed'.
C1_HealthyBackendIsReturned ==
    /\ gpc = "failed" => gHealthy = {}
    /\ gpc = "returned" => gResponse.from \in gHealthy

\* C2: if every one of the N backends fails, generate throws, and the errors
\* counter of the usage record has then grown by one for exactly the N backends.
C2_AllFailCountsNErrors ==
    (GenerateOver /\ gHealthy = {}) =>
        /\ gpc = "failed"
        /\ Cardinality({p \in ProviderSet :
                           ErrorsOf(usageStats, p) = ErrorsOf(gStatsAtStart, p) + 1})
              = Len(providers)

RECURSIVE UpToFirstHealthy(_, _)
\* the prefix of s that ends with its first element in healthy (all of s if none)
UpToFirstHealthy(s, healthy) ==
    IF s = <<>> THEN <<>>
    ELSE IF Head(s) \in healthy THEN <<Head(s)>>
    ELSE <<Head(s)>> \o UpToFirstHealthy(Tail(s), healthy)

\* the primary, then the fallback chain without the primary
PrimaryThenOthers(primary) ==
    <<primary>> \o SelectSeq(fallbackChain, LAMBDA p : p # primary)

\* C3: within one generate call each backend is attempted at most once: after
\* the primary fails, the loop skips exactly the backend already tried, tries the
\* others once each in fallback order and stops at the first success.
C3_EachBackendAttemptedOnce ==
    /\ \A i, j \in 1..Len(gAttempts) : gAttempts[i] = gAttempts[j] => i = j
    /\ GenerateOver => gAttempts = UpToFirstHealthy(PrimaryThenOthers(gProvider), gHealthy)

\* the permissions an agent holds
Held(agentId) == IF agentId \in DOMAIN permissions THEN permissions[agentId] ELSE {}

Called == last.op = "executeInSandbox"

\* C4: a worker without the execute permission (never granted, or revoked) has
\* executeInSandbox rejected with the permission error, whether or not it is
\* quarantined and whatever its rate-limit window holds.
C4_NoExecutePermissionIsDenied ==
    (Called /\ "execute" \notin Held(last.agent)) => last.outcome = PermissionDenied

\* a quarantined worker whose execute permission was revoked after an admitted
\* call is rejected with the permission error
C4_Witness ==
    /\ Called
    /\ last.agent \in DOMAIN permissions
    /\ "execute" \notin Held(last.agent)
    /\ last.agent \in quarantine
    /\ last.agent \in DOMAIN rateLimits
    /\ rateLimits[last.agent] # <<>>
    /\ last.outcome = PermissionDenied

Dangerous(entries) ==
    SelectSeq(entries, LAMBDA e : e.action = "dangerous_code_detected")

\* C5 as the spec states it: the quarantine check comes first, so a quarantined
\* worker is rejected as quarantined before its permission is examined, and
\* dangerous patterns are logged only once the rate check has passed.
C5_QuarantineFirstSanitizeLast ==
    Called =>
        /\ last.agent \in quarantine => last.outcome = WorkerQuarantined
        /\ last.outcome \in {PermissionDenied, WorkerQuarantined, RateLimitExceeded}
              => Dangerous(last.appended) = <<>>

\* C5 as the code has it: the steps run in the order permission check,
\* quarantine check, sanitization (dangerous patterns are logged), rate-limit
\* check, execution; the first failing check is terminal and decides the error.
C5_ChecksInCodeOrder ==
    Called =>
        LET danger == sanitizeCode(last.code).entries
        IN IF "execute" \notin Held(last.agent)
           THEN last.outcome = PermissionDenied /\ last.appended = <<>>
           ELSE IF last.agent \in quarantine
           THEN last.outcome = WorkerQuarantined /\ last.appended = <<>>
           ELSE IF last.outcome = RateLimitExceeded
           THEN last.appended =
                   danger \o <<Entry("rate_limit_exceeded", last.agent, "")>>
           ELSE last.outcome = "Executing" /\ last.appended = danger

\* a call with a blocked construct is rejected by the rate limiter after the
\* construct has been logged
C5_Witness ==
    /\ Called
    /\ last.outcome = RateLimitExceeded
    /\ Dangerous(last.appended) # <<>>

\* the admitted calls of an agent that are less than windowMs old
Recent(agentId) ==
    {i \in 1..Len(admitted[agentId]) : now - admitted[agentId][i] < windowMs}

IsSuffix(s, t) ==
    /\ Len(s) <= Len(t)
    /\ s = SubSeq(t, Len(t) - Len(s) + 1, Len(t))

\* C6: per worker, a call passes the rate limiter iff fewer than maxRequests of
\* its earlier admitted calls are less than windowMs old; a rejected call adds
\* no timestamp; no window of windowMs holds more than maxRequests admitted calls
\* of one worker.
C6_SlidingWindow ==
    /\ \A a \in Agents : \A i \in 1..Len(admitted[a]) :
          Cardinality({j \in 1..i : admitted[a][i] - admitted[a][j] < windowMs})
             <= maxRequests
    /\ (Called /\ last.outcome = RateLimitExceeded) =>
          Cardinality(Recent(last.agent)) >= maxRequests
    /\ (Called /\ last.outcome = "Executing") =>
          Cardinality(Recent(last.agent) \ {Len(admitted[last.agent])}) < maxRequests
    /\ \A a \in DOMAIN rateLimits :
          /\ IsSuffix(rateLimits[a], admitted[a])
          /\ Len(rateLimits[a]) >= Cardinality(Recent(a))

\* a worker is admitted again after its window was full: it has more admitted
\* calls than one window holds
C6_Witness ==
    /\ Called
    /\ last.outcome = "Executing"
    /\ Len(admitted[last.agent]) > maxRequests

\* C7: while w is in the quarantine set no executeInSandbox call for w gets past
\* the checks: it is rejected, and no invocation for w starts executing.
C7_QuarantinedNeverStartsExecuting ==
    (Called /\ last.agent \in quarantine) =>
        last.outcome \in {PermissionDenied, WorkerQuarantined}

\* a worker with the execute permission and an execution still in flight is
\* quarantined, and its next call is rejected
C7_Witness ==
    /\ Called
    /\ last.agent \in quarantine
    /\ "execute" \in Held(last.agent)
    /\ last.outcome = WorkerQuarantined
    /\ \E i \in 1..MaxInFlight :
          invocations[i].agent = last.agent /\ invocations[i].phase = "pending"

Released == last.op = "releaseAgent" /\ last.snapshot.taken

\* C8: quarantineAgent(w), then calls of w while quarantined, then
\* releaseAgent(w) leave the permissions and the rate limiter windows of w and
\* of every other worker as they were when w was quarantined.
C8_ReleaseRestoresState ==
    Released =>
        /\ permissions = last.snapshot.permissions
        /\ rateLimits = last.snapshot.rateLimits

\* a worker with the execute permission and a non-empty window was quarantined,
\* called the sandbox, and was released
C8_Witness ==
    /\ Released
    /\ last.snapshot.attempted
    /\ "execute" \in Held(last.agent)
    /\ last.agent \in DOMAIN rateLimits
    /\ rateLimits[last.agent] # <<>>

\* the audit entries that record how an invocation ended
Outcomes(entries) ==
    SelectSeq(entries, LAMBDA e : e.action # "dangerous_code_detected")

\* C9: every executeInSandbox invocation leaves exactly one audit entry for its
\* outcome: each rejection, each failure or timeout, each successful execution.
C9_EveryOutcomeAudited ==
    /\ (Called /\ last.outcome # "Executing") => Len(Outcomes(last.appended)) = 1
    /\ last.op = "awaitResumes" => Len(Outcomes(last.appended)) = 1

\* C10: the audit log never holds more than maxAuditEntries entries, and it is
\* exactly the most recently appended entries in the order they were appended.
C10_AuditLogIsNewestEntries ==
    /\ Len(auditLog) <= maxAuditEntries
    /\ IsSuffix(auditLog, auditWritten)
    /\ Len(auditWritten) <= maxAuditEntries => auditLog = auditWritten
    /\ Len(auditWritten) > maxAuditEntries => Len(auditLog) = maxAuditEntries

\* more entries were appended than the log keeps
C10_Witness == Len(auditWritten) > maxAuditEntries + 1

\* the declared features of the analysis the planner was called with
DeclaredFeatures ==
    IF "features" \in DOMAIN analysis.requirements THEN analysis.requirements.features ELSE <<>>

\* C11: for requirements declaring n features createTaskBreakdown emits exactly
\* n+3 tasks in this order: the setup task with no dependencies, the n feature
\* tasks in declaration order (dependencies and priority as declared, none and
\* medium by default), the testing task depending on the setup task, and the
\* deployment task depending on the testing task.
C11_TaskBreakdownShape ==
    "features" \in DOMAIN analysis.requirements =>
        LET n == Len(DeclaredFeatures)
            tasks == planResult.tasks
        IN /\ planResult.status = "returned"
           /\ Len(tasks) = n + 3
           /\ tasks[1].type = "setup" /\ tasks[1].dependencies = <<>>
           /\ \A i \in 1..n :
                 LET f == DeclaredFeatures[i]
                     t == tasks[i + 1]
                 IN /\ t.type = "feature"
                    /\ t.id = FeatureId(f.name)
                    /\ t.dependencies =
                          (IF "dependencies" \in DOMAIN f THEN f.dependencies ELSE <<>>)
                    /\ t.priority = (IF "priority" \in DOMAIN f THEN f.priority ELSE "medium")
           /\ tasks[n + 2].type = "testing"
           /\ tasks[n + 2].dependencies = <<tasks[1].id>>
           /\ tasks[n + 3].type = "deployment"
           /\ tasks[n + 3].dependencies = <<tasks[n + 2].id>>

\* a breakdown of several features, one with declared dependencies and priority
\* and one that declares neither
C11_Witness ==
    /\ planResult.status = "returned"
    /\ Len(DeclaredFeatures) >= 2
    /\ \E i \in 1..Len(DeclaredFeatures) :
          /\ "dependencies" \in DOMAIN DeclaredFeatures[i]
          /\ DeclaredFeatures[i].dependencies # <<>>
          /\ "priority" \in DOMAIN DeclaredFeatures[i]
    /\ \E i \in 1..Len(DeclaredFeatures) : DOMAIN DeclaredFeatures[i] = {"name"}

\* the executeProject call was given a plan with a task list
WellFormedPlan == "tasks" \in DOMAIN projectPlan

C13_DispatchedAfterDependencies ==
    (opc = "awaiting") =>
        \A d \in Range(projectPlan.tasks[oIdx].dependencies) :
            \E j \in 1..Len(execution.tasks) :
                execution.tasks[j].id = d /\ execution.tasks[j].status = "completed"

\* the pairs <<task id, id it depends on>> of a task list
DependsOn(tasks) ==
    UNION {{<<tasks[i].id, d>> : d \in Range(tasks[i].dependencies)} : i \in 1..Len(tasks)}

RECURSIVE Reaches(_, _)
\* the pairs joined by a chain of at most n + 1 pairs of R
Reaches(R, n) ==
    IF n = 0 THEN R
    ELSE LET S == Reaches(R, n - 1)
             joined == {pq \in S \X R : pq[1][2] = pq[2][1]}
         IN S \cup {<<pq[1][1], pq[2][2]>> : pq \in joined}

\* some task depends on itself, directly or through a chain of dependencies
Cyclic(tasks) ==
    \E pair \in Reaches(DependsOn(tasks), Len(tasks)) : pair[1] = pair[2]

\* C14: a task list in which a task's dependency set contains the task itself
\* or closes a cycle is rejected when it is built, and no task of such a list
\* is ever dispatched to a worker.
C14_CyclicGraphIsRejected ==
    /\ planResult.status = "returned" => ~Cyclic(planResult.tasks)
    /\ (WellFormedPlan /\ opc = "awaiting") => ~Cyclic(projectPlan.tasks)

\* the execution records of the run hold a failed task
SomeTaskFailed(exec) ==
    \E j \in 1..Len(exec.tasks) : exec.tasks[j].status = "failed"

C19_MissingFeatureListIsEmpty ==
    (planResult.status # "none" /\ "features" \notin DOMAIN analysis.requirements) =>
        /\ planResult.status = "returned"
        /\ [i \in 1..Len(planResult.tasks) |-> planResult.tasks[i].type]
              = <<"setup", "testing", "deployment">>

\* how many of the attempts of this call before the last one were made on p
FailedAttemptsOn(p) ==
    Cardinality({i \in 1..(Len(gAttempts) - 1) : gAttempts[i] = p})

\* C16: when generate returns a fallback backend's response after k earlier
\* attempts failed, the usage record has changed by exactly errors +1 for each
\* failed attempt's backend and calls +1 for the backend whose response was
\* returned.
C16_FallbackUpdatesUsage ==
    (gpc = "returned" /\ Len(gAttempts) > 1) =>
        \A p \in ProviderSet :
            /\ ErrorsOf(usageStats, p) = ErrorsOf(gStatsAtStart, p) + FailedAttemptsOn(p)
            /\ CallsOf(usageStats, p) =
                  CallsOf(gStatsAtStart, p) + (IF p = gResponse.from THEN 1 ELSE 0)

\* the first-declared backend among those whose score is lowest
FirstLowest(score) ==
    LET i == CHOOSE i \in 1..Len(providers) :
                 /\ \A j \in 1..Len(providers) : score[providers[i]] <= score[providers[j]]
                 /\ \A j \in 1..(i - 1) : score[providers[i]] < score[providers[j]]
    IN providers[i]

\* C17: for each optimization goal the primary backend of a request is the
\* backend with the lowest cost score (goal cost), the highest speed score (goal
\* speed) or the highest quality score (goal quality); among equal scores the
\* first-declared backend is chosen.
C17_PrimaryIsBestForGoal ==
    gpc # "idle" =>
        /\ gOptions = {"costOptimized"} =>
              gProvider = FirstLowest([p \in ProviderSet |-> providerCosts[p].cost])
        /\ gOptions = {"performanceOptimized"} =>
              gProvider = FirstLowest([p \in ProviderSet |-> 0 - providerCosts[p].speed])
        /\ gOptions = {"qualityOptimized"} =>
              gProvider = FirstLowest([p \in ProviderSet |-> 0 - providerCosts[p].quality])

\* a request with goal quality, for which two backends share the highest
\* score, got the first-declared of the two as its primary
C17_Witness ==
    /\ gpc # "idle"
    /\ gOptions = {"qualityOptimized"}
    /\ gProvider = "openai"
    /\ providerCosts["claude"].quality = providerCosts["openai"].quality

\* C18: when every backend in the chain fails, the error generate fails with
\* carries the underlying error of the last backend attempted.
C18_FailureCarriesLastError ==
    gpc = "failed" => gError.cause = gAttempts[Len(gAttempts)]

\* an execution of w is under way: started and its outcome not yet logged
InProgress(w) ==
    \E i \in 1..MaxInFlight :
        /\ invocations[i].agent = w
        /\ invocations[i].phase \in {"pending", "resolved", "rejected", "timedout"}

\* C20: from quarantineAgent(w) until releaseAgent(w) no sandboxed execution on
\* behalf of w is in progress or completes, an execution that was already
\* running when w was quarantined included: no code_executed entry for w is
\* appended while w is quarantined.
C20_QuarantineStopsRunningExecutions ==
    \A w \in quarantine :
        /\ ~InProgress(w)
        /\ (last.op = "awaitResumes" /\ last.agent = w) => last.outcome # "Completed"

\* C21: every invocation that passes the checks ends in exactly one of
\* Completed, Failed or TimedOut; a payload that has not settled when
\* maxExecutionTime has elapsed ends TimedOut with the execution-timeout error,
\* and a payload that settles after the timeout neither changes that outcome
\* nor adds a second outcome entry.
C21_TimeoutEndsTimedOut ==
    /\ \A i \in 1..MaxInFlight :
          invocations[i].phase \in {"resolved", "rejected"} =>
              now - invocations[i].started < maxExecutionTime
    /\ last.op = "awaitResumes" =>
          /\ last.outcome \in {"Completed", "Failed", "TimedOut"}
          /\ Len(last.appended) = 1
          /\ last.outcome = "TimedOut" =>
                /\ last.appended[1].action = "code_execution_failed"
                /\ last.appended[1].detail = ExecutionTimeout
    /\ last.op = "payloadSettles" => last.appended = <<>>

\* the ids of a sequence of tasks or of execution records, in order
IdsOf(s) == [j \in 1..Len(s) |-> s[j].id]

\* C22: executeProject dispatches the tasks in the order of the plan's task
\* list, one at a time: while task i is with its worker the Execution holds the
\* final records of tasks 1..i-1 in that order and nothing else; the Execution
\* it returns holds exactly one record per task, in plan order, none running.
C22_OneRecordPerTaskInOrder ==
    /\ (WellFormedPlan /\ opc = "awaiting") =>
          /\ oIdx \in 1..Len(projectPlan.tasks)
          /\ IdsOf(execution.tasks) = IdsOf(SubSeq(projectPlan.tasks, 1, oIdx - 1))
          /\ \A j \in 1..Len(execution.tasks) :
                execution.tasks[j].status \in {"completed", "failed"}
    /\ opc = "returned" =>
          /\ IdsOf(execution.tasks) = IdsOf(projectPlan.tasks)
          /\ \A j \in 1..Len(execution.tasks) :
                execution.tasks[j].status \in {"completed", "failed"}

\* a run over a plan with two features returned, its five records in plan
\* order, some completed and some failed
C22_Witness ==
    /\ opc = "returned"
    /\ Len(projectPlan.tasks) = 5
    /\ Len(execution.tasks) = 5
    /\ \E j, k \in 1..5 :
          execution.tasks[j].status = "completed" /\ execution.tasks[k].status = "failed"

\* C25: the tasks emitted by one createTaskBreakdown call have pairwise
\* distinct ids, whatever the declared features are called.
C25_TaskIdsAreDistinct ==
    planResult.status = "returned" =>
        \A i, j \in 1..Len(planResult.tasks) :
            planResult.tasks[i].id = planResult.tasks[j].id => i = j

\* an executeProject call is over after this step
CallEnds ==
    /\ opc' \in {"returned", "raised"}
    /\ opc = "awaiting" \/ nProjects' # nProjects

\* the history after this step is the history before it with exactly the
\* call's Execution appended, its status final
AppendsFinalExecution ==
    /\ executionHistory' = Append(executionHistory, execution')
    /\ execution'.status \in {"completed", "failed"}

\* C28 as the spec states it: every executeProject call, whether it returns or
\* raises, appends exactly one Execution to the history, its status final, and
\* no entry of the history is ever removed, reordered or replaced.
C28_EveryCallAppendsOne ==
    [][IF CallEnds THEN AppendsFinalExecution
       ELSE executionHistory' = executionHistory]_vars

\* C28 as the code has it: a call that was given a plan object appends exactly
\* one Execution, its status final, when it returns or raises; a call given no
\* plan raises before its Execution exists and appends nothing; no entry of the
\* history is ever removed, reordered or replaced.
C28_CallWithPlanAppendsOne ==
    [][IF CallEnds /\ "null" \notin DOMAIN projectPlan' THEN AppendsFinalExecution
       ELSE executionHistory' = executionHistory]_vars

\* a second call has ended: the history holds a completed and a failed
\* Execution, the earlier one first
C28_Witness ==
    /\ Len(executionHistory) = 2
    /\ executionHistory[1].status = "completed"
    /\ executionHistory[1].tasks # <<>>
    /\ executionHistory[2].status = "failed"
    /\ opc = "raised"

\* C23: audit entries are totally ordered by id: the id of each appended entry
\* is strictly greater than the id of every entry appended before it.
C23_AuditIdsIncrease ==
    \A i, j \in 1..Len(auditIds) : i < j => auditIds[i] < auditIds[j]

\* C24: for every input, inputs that hold the same deny-listed construct more
\* than once included, the output of sanitizeCode holds no deny-listed construct.
C24_SanitizedHasNoBlockedConstruct ==
    (Called /\ last.outcome \notin {PermissionDenied, WorkerQuarantined}) =>
        \A k \in 1..Len(blockedPatterns) :
            blockedPatterns[k] \notin Range(sanitizeCode(last.code).code)

\* how many entries of log with the given action are less than recentWindow old
CountRecent(log, action) ==
    Cardinality({i \in 1..Len(log) :
                    log[i].action = action /\ now - log[i].timestamp < recentWindow})

\* the anomalies of the given type in what detectAnomalies returned
ReportedAs(type) == SelectSeq(anomalies, LAMBDA a : a.type = type)

Monitored == last.op = "detectAnomalies"

\* C26: detectAnomalies reports excessive_failures (severity high) exactly when
\* more than failureThreshold code_execution_failed entries of the audit log,
\* of all workers together, are less than recentWindow old, and
\* suspicious_patterns (severity critical) exactly when more than
\* patternThreshold dangerous_code_detected entries are; at exactly the
\* thresholds nothing is reported.
C26_AnomalyThresholds ==
    Monitored =>
        LET failures == CountRecent(auditLog, "code_execution_failed")
            patterns == CountRecent(auditLog, "dangerous_code_detected")
        IN /\ ReportedAs("excessive_failures") =
                 (IF failures > failureThreshold
                  THEN <<[type |-> "excessive_failures", severity |-> "high",
                          count |-> failures]>>
                  ELSE <<>>)
           /\ ReportedAs("suspicious_patterns") =
                 (IF patterns > patternThreshold
                  THEN <<[type |-> "suspicious_patterns", severity |-> "critical",
                          count |-> patterns]>>
                  ELSE <<>>)
           /\ Len(anomalies) = Len(ReportedAs("excessive_failures"))
                                  + Len(ReportedAs("suspicious_patterns"))

\* excessive_failures is reported on failureThreshold + 1 recent failures that
\* two workers caused together
C26_Witness ==
    /\ Monitored
    /\ ReportedAs("excessive_failures") # <<>>
    /\ CountRecent(auditLog, "code_execution_failed") = failureThreshold + 1
    /\ \E i, j \in 1..Len(auditLog) :
          /\ auditLog[i].action = "code_execution_failed"
          /\ auditLog[j].action = "code_execution_failed"
          /\ auditLog[i].agentId # auditLog[j].agentId

\* C27: the quarantine set changes only through quarantineAgent and
\* releaseAgent: executeInSandbox with any outcome, the rate limiter,
\* detectAnomalies and getSecurityStatus never add or remove a worker.
C27_OnlyOperatorChangesQuarantine ==
    [][quarantine' # quarantine => last'.op \in {"quarantineAgent", "releaseAgent"}]_vars

\* the monitor reported an anomaly, the operator quarantined a worker on it, and
\* the monitor is asked again while that worker is quarantined and another is not
C27_Witness ==
    /\ last.op = "getSecurityStatus"
    /\ securityStatus.quarantinedAgents = quarantine
    /\ quarantine # {}
    /\ quarantine # Agents
    /\ \E k \in 1..Len(auditWritten) : auditWritten[k].action = "code_execution_failed"

\* C29: if more than failureThreshold sandboxed executions failed during the
\* last recentWindow, detectAnomalies reports excessive_failures, however many
\* other audit events were logged in between.
C29_RecentFailuresAreReported ==
    (Monitored /\ CountRecent(auditWritten, "code_execution_failed") > failureThreshold)
        => ReportedAs("excessive_failures") # <<>>

\* C30: every audit entry written during an executeInSandbox invocation for
\* worker w carries w's id, so getAuditLog filtered by agentId = w returns every
\* entry of the log that the invocation caused.
C30_InvocationEntriesCarryAgent ==
    Called =>
        \A k \in 1..Len(last.appended) :
            /\ last.appended[k].agentId = last.agent
            /\ last.appended[k] \in Range(auditLog) =>
                  last.appended[k] \in Range(getAuditLog([agentId |-> last.agent]))

====
